---- MODULE Spec2Model ----
(***************************************************************************)
(* Voxscribe room session engine.                                          *)
(*                                                                         *)
(* Client: voxscribe-app/src/pages/ConvoRoom.tsx (the ConvoRoom component: *)
(* the WebSocket effect, its onopen/onmessage/onerror/onclose handlers,    *)
(* the reconnect timer, the effect cleanup, the language effect and the    *)
(* end-session button).                                                    *)
(* Server: the websocket_endpoint listing of                               *)
(* SPEECH_TO_TEXT_IMPLEMENTATION.md (connect, 4004, roster snapshot,       *)
(* pipeline and broadcast).  The handling of the text frames (join, leave, *)
(* language_change, end_session) is not part of that listing and follows   *)
(* section 4.2 of the specification.                                       *)
(*                                                                         *)
(* The browser WebSocket is modelled by its readyState and by two FIFO     *)
(* queues per transport (client->server inq, server->client out).  The     *)
(* transcription frame carries the fields the client reads (message_id,    *)
(* speaker_id, target_language, translated_text).  seq numbers a speaker's *)
(* units in the order the client sent them; the program does not carry it. *)
(***************************************************************************)
EXTENDS Integers, Sequences, FiniteSets, TLC

\* ---------------------------------------------------------------- bounds
MaxSockets == 3     \* transports ever created by one participant
MaxResends == 2     \* transports created where the user also sends
MaxQueue == 1       \* user-initiated frames waiting in one transport's inq
MaxChunks == 1      \* frames accumulated in one recording turn
MaxFrames == 2      \* the same where the recording turn is studied alone
FrameLen == 2       \* samples of one frame
MaxUnits == 2       \* recording turns started in the room in session
MaxTurns == 1       \* recording turns started where transports also fail
MaxChanges == 1     \* uses of the language <select>
MaxSamples == 2     \* samples of a buffer handed to bufferToWav
MaxPresence == 2    \* frames waiting in one transport's out for a presence
                    \* event to be added
MaxInput == 4       \* samples of a buffer handed to downsampleBuffer
MaxRequests == 3    \* calls of TextTranslator.translate studied alone

\* ------------------------------------------------------------- constants
Users == 1 .. 2                 \* the room's participants, in roster order
Langs == {"en", "fr"}
RoomCreator == CHOOSE u \in Users : \A v \in Users : u <= v
ConfFloor == 3                  \* confidence < 0.3 is skipped (in tenths)
\* what the recognition step can return for one audio unit
RecResults == [size : {0, 1}, text : {"", "hello"}, lang : Langs, conf : {1, 9}]
\* and for a unit spoken in a language that is no participant's target
ForeignResults == [size : {1}, text : {"hello"}, lang : {"es"}, conf : {9}]
\* sample rates in units of 50 Hz: the rate the units are sent at (16000 Hz)
\* and the rates an AudioContext runs at (8000, 16000, 22050, 44100, 48000)
OutRate == 320
\* what TextTranslator.translate is asked for: texts, language codes (two
\* of them aliases that language_mapping normalises), and the answers
\* the translation service may give to one question at different times
Texts == {"", "hello"}
Codes == {"en", "zh", "zh-cn"}
Versions == {1, 2}
Rates == {160, 320, 441, 882, 960}

VARIABLES
    socks,        \* every WebSocket ever created, in creation order
    wsRef,        \* wsRef.current of each user's component (0 = null)
    view,         \* "absent" | "new" | "active" (effect mounted) | "cleaned"
    timers,       \* pending reconnect timers per user, by captured translateTo
    isConnected,  \* React state isConnected
    translateTo,  \* React state translateTo
    isCreator,    \* React state isCreator
    ended,        \* the client has processed session_ended
    messages,     \* React state messages (the visible transcript)
    isRecording,  \* React state isRecording
    chunks,       \* audioChunksRef.current: the frames pushed, in order
    mic,          \* [grants, cur, leaked]: pending getUserMedia calls, the
                  \* pipeline the refs point to, an unreferenced live pipeline
    unitsSent,    \* audio units the client has sent
    turn,         \* history: recording turns the user has started
    plan,         \* what may still happen: [socks, turns, changes], and
                  \* the frames a turn may accumulate
    participants, \* React state participants (the roster the client shows)
    fetch,        \* the fetchRoomData request of the page is in flight
    listed,       \* history: the last participants_list processed and
                  \* whether a join/leave event was processed after it
    reply,        \* the response to GET /messages of the page's fetchRoomData
                  \* once the server has answered: [served, list]
    pcm,          \* the Float32Array handed to bufferToWav, in half units
    wav,          \* the bytes of the Blob it returned (<<>> = not called)
    dsp,          \* one call of downsampleBuffer: [rate, input, done, output]
    translator,   \* TextTranslator studied alone: its cache with the values,
                  \* and history: calls made, service calls made, the
                  \* translations obtained, the last call and its result,
                  \* the call before it
    roomFound,    \* the user and room rows exist in the database
    online,       \* registry: participant online flag
    srvLang,      \* registry: participant translate_to_language
    endedBy,      \* registry: who ended the session (0 = nobody)
    cache,        \* TextTranslator.cache keys <<src, dst>>
    nextMid,      \* next messages.id of the database
    nextTid,      \* next transcriptions.id of the database
    stored        \* the rows of the messages table, in id order

vars == <<socks, wsRef, view, timers, isConnected, translateTo, isCreator,
          ended, messages, isRecording, chunks, mic, unitsSent, turn, plan,
          participants, fetch, listed, reply, pcm, wav, dsp, translator,
          roomFound, online, srvLang, endedBy, cache, nextMid, nextTid,
          stored>>

micVars == <<isRecording, chunks, mic, unitsSent, turn>>
rosterVars == <<participants, fetch, listed, reply>>
wavVars == <<pcm, wav>>
utilVars == <<wavVars, dsp, translator>>
clientVars == <<wsRef, view, timers, isConnected, translateTo, isCreator,
                ended, messages, micVars, plan, rosterVars, utilVars>>
serverVars == <<roomFound, online, srvLang, endedBy, cache, nextMid,
                nextTid, stored>>

\* ----------------------------------------------------------- wire frames
\* client -> server
CMsg(t, u) == [type |-> t, user |-> u, lang |-> "", flag |-> FALSE, seq |-> 0,
               samples |-> <<>>]
\* server -> client
SMsg(t) == [type |-> t, code |-> 0, creator |-> 0, by |-> 0, mid |-> 0,
            speaker |-> 0, seq |-> 0, lang |-> "", target |-> "", tr |-> "",
            to |-> 0, list |-> <<>>, user |-> 0, flag |-> FALSE,
            text |-> "", conf |-> 0]
CloseFrame(c) == [SMsg("close") EXCEPT !.code = c]

SockIds == DOMAIN socks
Live(s) == socks[s].rs \in {"CONNECTING", "OPEN"}
TotalTimers(u) == timers[u]["en"] + timers[u]["fr"]
Pending == LET RECURSIVE Sum(_)
               Sum(S) == IF S = {} THEN 0
                         ELSE LET x == CHOOSE x \in S : TRUE
                              IN TotalTimers(x) + Sum(S \ {x})
           IN Sum(Users)
\* room for one more transport (bounds the reconnect chain)
Budget == Len(socks) + Pending < plan.socks

\* new WebSocket(wsUrl); wsRef.current = it; handlers capture translateTo
NewSock(u, cap, how) ==
    [owner |-> u, rs |-> "CONNECTING", cap |-> cap, via |-> how, code |-> 0,
     accepted |-> FALSE, opened |-> FALSE, srv |-> "none", joined |-> FALSE,
     first |-> "none", call |-> "none",
     inq |-> <<>>, out |-> <<>>, snap |-> <<>>, job |-> <<>>]

\* ws.send(frame) without the readyState test
SendUnguarded(S, t, m) ==
    IF t # 0 /\ S[t].rs \in {"CONNECTING", "OPEN"}
    THEN [S EXCEPT ![t].inq = Append(@, m),
                   ![t].first = IF @ = "none" THEN m.type ELSE @]
    ELSE S

\* ws.send(frame) on transport t: delivered only when t is OPEN (a send on a
\* CONNECTING socket throws, on a CLOSING/CLOSED one it is discarded)
Send(S, t, m) ==
    IF t # 0 /\ S[t].rs = "OPEN"
    THEN [S EXCEPT ![t].inq = Append(@, m),
                   ![t].first = IF @ = "none" THEN m.type ELSE @]
    ELSE S

\* ws.close(1000, ...) called by the client; a socket closed while CONNECTING
\* never opens and ends with a close event of code 1006
Close(S, t) ==
    IF t = 0 THEN S
    ELSE IF S[t].rs = "OPEN"
         THEN [S EXCEPT ![t].rs = "CLOSING",
                        ![t].inq = Append(@, CMsg("close", S[t].owner))]
    ELSE IF S[t].rs = "CONNECTING"
         THEN [S EXCEPT ![t].rs = "CLOSING"]
    ELSE S

\* the server writes frames fs to connection x; nothing reaches a peer whose
\* socket is already CLOSED
Deliver(x, fs) == IF x.rs = "CLOSED" THEN x ELSE [x EXCEPT !.out = @ \o fs]

\* onclose without the setTimeout
ScheduleOnCloseNever(T, u, cap, code) == T

\* onclose: schedule one reconnect timer unless the code is 1000
ScheduleOnClose(T, u, cap, code) ==
    IF code # 1000 THEN [T EXCEPT ![u][cap] = @ + 1] ELSE T

NoMic == [grants |-> 0, cur |-> "none", leaked |-> FALSE]

\* one entry of the roster the client shows
Entry(id, on) == [id |-> id, isOnline |-> on, status |-> "muted"]
NoList == [seen |-> FALSE, ids |-> {}, clean |-> FALSE]
\* GET /messages has not been answered
NoReply == [served |-> FALSE, list |-> <<>>]
\* the participants of the room as GET /participants returns them
RoomParticipants == [i \in 1 .. Cardinality(Users) |-> i]
\* the online participants, in roster order
OnlineList(on) == SelectSeq(RoomParticipants, LAMBDA x : on[x])

\* transports that may be created, recording turns and language changes
\* that may be started
Plan(k, t, c) ==
    [socks |-> k, turns |-> t, changes |-> c, frames |-> MaxChunks]

\* one participant opens the room page; nothing is connected yet
Page(p) ==
    /\ plan = p
    /\ socks = <<>>
    /\ wsRef = [u \in Users |-> 0]
    /\ view = [u \in Users |-> IF u = RoomCreator THEN "new" ELSE "absent"]
    /\ timers = [u \in Users |-> [l \in Langs |-> 0]]
    /\ isConnected = [u \in Users |-> FALSE]
    /\ translateTo = [u \in Users |-> "en"]
    /\ isCreator = [u \in Users |-> FALSE]
    /\ ended = [u \in Users |-> FALSE]
    /\ messages = [u \in Users |-> <<>>]
    /\ isRecording = [u \in Users |-> FALSE]
    /\ chunks = [u \in Users |-> <<>>]
    /\ turn = [u \in Users |-> 0]
    /\ mic = [u \in Users |-> NoMic]
    /\ unitsSent = [u \in Users |-> 0]
    /\ participants = [u \in Users |-> <<>>]
    /\ fetch = [u \in Users |-> FALSE]
    /\ listed = [u \in Users |-> NoList]
    /\ reply = [u \in Users |-> NoReply]
    /\ roomFound \in BOOLEAN
    /\ online = [u \in Users |-> FALSE]
    /\ srvLang = [u \in Users |-> "en"]
    /\ endedBy = 0
    /\ cache = {}
    /\ nextMid = 1
    /\ nextTid = 1
    /\ stored = <<>>

\* downsampleBuffer has not been called
NoDsp == [rate |-> OutRate, input |-> <<>>, done |-> FALSE, output |-> <<>>]
\* a string as translate returns it: the text, the language it is in and
\* the answer of the service it is (0 = the text as it was given)
Text(x, l, v) == [text |-> x, lang |-> l, v |-> v]
\* the empty dict
NoCache == [k \in {} |-> Text("", "en", 0)]
\* the translator has not been called
NoTranslator ==
    [cache |-> NoCache, got |-> NoCache, n |-> 0, calls |-> 0,
     prev |-> <<"", "en", "en">>,
     last |-> [key |-> <<"", "en", "en">>, value |-> Text("", "en", 0),
               service |-> FALSE]]
\* the utility functions and the translator are studied apart
Idle == dsp = NoDsp /\ translator = NoTranslator

\* and nothing has been encoded
Boot(p) == Page(p) /\ pcm = <<>> /\ wav = <<>> /\ Idle

Init == Boot(Plan(MaxSockets, 0, 0))

\* ------------------------------------------------------------ the client
\* the WebSocket effect body: connectWebSocket()
Connect(u, how) ==
    /\ Budget
    /\ view' = [view EXCEPT ![u] = "active"]
    /\ socks' = Append(socks, NewSock(u, translateTo[u], how))
    /\ wsRef' = [wsRef EXCEPT ![u] = Len(socks) + 1]
    /\ fetch' = [fetch EXCEPT ![u] = TRUE]
    /\ UNCHANGED <<timers, isConnected, translateTo, isCreator, ended,
                   messages, micVars, plan, participants, listed, reply, utilVars,
                   serverVars>>

\* the page's two effects run for the first time (currentUser and roomId
\* are set): fetchRoomData is requested and the WebSocket is created
Mount(u) == view[u] = "new" /\ Connect(u, "effect")

\* the effects run again after the cleanup (their dependencies changed)
EffectRerun(u) == view[u] = "cleaned" /\ ~ended[u] /\ Connect(u, "rerun")

\* the effect cleanup: leave if OPEN, close(1000), stop the stream, close
\* the audio context
Teardown(S, u) == Close(Send(S, wsRef[u], CMsg("leave", u)), wsRef[u])

StopPipeline(u) == [mic EXCEPT ![u].cur = IF @ = "live" THEN "dead" ELSE @]

\* the component unmounts or the effect's dependencies change
Cleanup(u) ==
    /\ view[u] = "active"
    /\ view' = [view EXCEPT ![u] = "cleaned"]
    /\ socks' = Teardown(socks, u)
    /\ mic' = StopPipeline(u)
    /\ UNCHANGED <<wsRef, timers, isConnected, translateTo, isCreator, ended,
                   messages, isRecording, chunks, unitsSent, turn, plan, rosterVars,
                   utilVars,
                   serverVars>>

\* setParticipants(prev => prev.map(...)) of onopen: the user's own entry
\* goes online
MarkOnline(ps, x) ==
    [i \in DOMAIN ps |->
        IF ps[i].id = x THEN [ps[i] EXCEPT !.isOnline = TRUE] ELSE ps[i]]

\* the connection is established: readyState OPEN and onopen in one task
SocketOpen(s) ==
    /\ socks[s].rs = "CONNECTING"
    /\ socks[s].accepted
    /\ LET u == socks[s].owner
           S1 == [socks EXCEPT ![s].rs = "OPEN", ![s].opened = TRUE]
       IN /\ isConnected' = [isConnected EXCEPT ![u] = TRUE]
          /\ participants' = [participants EXCEPT ![u] = MarkOnline(@, u)]
          /\ socks' = Send(S1, wsRef[u], CMsg("join", u))
    /\ UNCHANGED <<wsRef, view, timers, translateTo, isCreator, ended,
                   messages, micVars, plan, fetch, listed, reply, utilVars,
                   serverVars>>

\* the connection fails or is lost: error event then close event, code 1006;
\* the frames in flight are lost with it
NetFail(s) ==
    /\ socks[s].rs \in {"CONNECTING", "OPEN", "CLOSING"}
    /\ Budget
    /\ LET u == socks[s].owner
       IN /\ socks' = [socks EXCEPT ![s].rs = "CLOSED", ![s].code = 1006,
                                    ![s].inq = <<>>, ![s].out = <<>>]
          /\ isConnected' = [isConnected EXCEPT ![u] = FALSE]
          /\ timers' = ScheduleOnClose(timers, u, socks[s].cap, 1006)
    /\ UNCHANGED <<wsRef, view, translateTo, isCreator, ended, messages,
                   micVars, plan, rosterVars,
                   utilVars,
                   serverVars>>

\* a Close frame from the server arrives on an established connection:
\* close event with the server's code
OnClose(s) ==
    /\ socks[s].rs \in {"OPEN", "CLOSING"}
    /\ socks[s].opened
    /\ socks[s].out # <<>>
    /\ Head(socks[s].out).type = "close"
    /\ LET u == socks[s].owner
           c == Head(socks[s].out).code
       IN /\ c # 1000 => Budget
          /\ socks' = [socks EXCEPT ![s].rs = "CLOSED", ![s].code = c,
                                    ![s].out = <<>>]
          /\ isConnected' = [isConnected EXCEPT ![u] = FALSE]
          /\ timers' = ScheduleOnClose(timers, u, socks[s].cap, c)
    /\ UNCHANGED <<wsRef, view, translateTo, isCreator, ended, messages,
                   micVars, plan, rosterVars,
                   utilVars,
                   serverVars>>

\* the reconnect timer fires: if (currentUser && roomId) connectWebSocket()
TimerFire(u, cap) ==
    /\ timers[u][cap] > 0
    /\ timers' = [timers EXCEPT ![u][cap] = @ - 1]
    /\ socks' = Append(socks, NewSock(u, cap, "timer"))
    /\ wsRef' = [wsRef EXCEPT ![u] = Len(socks) + 1]
    /\ UNCHANGED <<view, isConnected, translateTo, isCreator, ended, messages,
                   micVars, plan, rosterVars,
                   utilVars,
                   serverVars>>

\* participants_list that makes every receiver the creator
OnParticipantsListAny(u, m) == [isCreator EXCEPT ![u] = TRUE]

\* onmessage, case 'participants_list'
OnParticipantsList(u, m) ==
    IF m.creator # 0 THEN [isCreator EXCEPT ![u] = (u = m.creator)]
    ELSE isCreator

\* onmessage, case 'participants_list': the roster is replaced by the
\* listed participants, all of them online
ListedParticipants(m) == [i \in DOMAIN m.list |-> Entry(m.list[i], TRUE)]

\* participant_joined that always adds an entry
OnParticipantJoinedAlways(ps, m) == Append(ps, Entry(m.user, TRUE))

\* onmessage, case 'participant_joined'
OnParticipantJoined(ps, m) ==
    IF \E i \in DOMAIN ps : ps[i].id = m.user
    THEN MarkOnline(ps, m.user)
    ELSE Append(ps, Entry(m.user, TRUE))

\* onmessage, case 'participant_left'
OnParticipantLeft(ps, m) ==
    [i \in DOMAIN ps |->
        IF ps[i].id = m.user THEN [ps[i] EXCEPT !.isOnline = FALSE]
        ELSE ps[i]]

\* onmessage, case 'speaking_status'
OnSpeakingStatus(ps, m) ==
    [i \in DOMAIN ps |->
        IF ps[i].id = m.user
        THEN [ps[i] EXCEPT !.status = IF m.flag THEN "speaking" ELSE "muted"]
        ELSE ps[i]]

\* the roster after onmessage has handled frame m
OnRosterEvent(ps, m) ==
    CASE m.type = "participants_list" -> ListedParticipants(m)
      [] m.type = "participant_joined" -> OnParticipantJoined(ps, m)
      [] m.type = "participant_left" -> OnParticipantLeft(ps, m)
      [] m.type = "speaking_status" -> OnSpeakingStatus(ps, m)
      [] OTHER -> ps

\* the filter of onmessage, case 'transcription'; translateTo is the value
\* the handler's closure captured when its effect ran
Accepts(u, cap, m) == m.target = cap \/ m.speaker = u

\* setMessages(prev => [newMessage, ...prev])
PrependMessage(ms, m) == <<m>> \o ms

\* setMessages(prev => [...prev, newMessage])
AppendMessage(ms, m) == Append(ms, m)

\* onmessage, case 'transcription'
OnTranscription(u, cap, m) ==
    IF Accepts(u, cap, m)
       /\ \A i \in DOMAIN messages[u] : messages[u][i].id # m.mid
    THEN [messages EXCEPT ![u] = AppendMessage(@,
             [id |-> m.mid, speaker |-> m.speaker, seq |-> m.seq,
              target |-> m.target, tr |-> IF m.tr = "" THEN m.lang ELSE m.tr])]
    ELSE messages

\* onmessage: a text frame is delivered while the socket is OPEN; a socket
\* that is CLOSING discards it.  case 'session_ended' alerts and navigates
\* to the dashboard, which unmounts the room view and runs the cleanup
ClientRecv(s) ==
    /\ socks[s].rs \in {"OPEN", "CLOSING"}
    /\ socks[s].out # <<>>
    /\ Head(socks[s].out).type # "close"
    /\ LET u == socks[s].owner
           m == Head(socks[s].out)
           deliver == socks[s].rs = "OPEN"
           S1 == [socks EXCEPT ![s].out = Tail(@)]
           leaving == deliver /\ m.type = "session_ended"
                        /\ view[u] = "active"
       IN /\ socks' = IF leaving THEN Teardown(S1, u) ELSE S1
          /\ view' = IF leaving THEN [view EXCEPT ![u] = "cleaned"] ELSE view
          /\ mic' = IF leaving THEN StopPipeline(u) ELSE mic
          /\ isCreator' = IF deliver /\ m.type = "participants_list"
                          THEN OnParticipantsList(u, m) ELSE isCreator
          /\ ended' = IF deliver /\ m.type = "session_ended"
                      THEN [ended EXCEPT ![u] = TRUE] ELSE ended
          /\ messages' = IF deliver /\ m.type = "transcription"
                         THEN OnTranscription(u, socks[s].cap, m)
                         ELSE messages
          /\ participants' = IF deliver
                             THEN [participants EXCEPT
                                      ![u] = OnRosterEvent(@, m)]
                             ELSE participants
          /\ listed' =
                IF deliver /\ m.type = "participants_list"
                THEN [listed EXCEPT ![u] =
                        [seen |-> TRUE, clean |-> TRUE,
                         ids |-> {m.list[i] : i \in DOMAIN m.list}]]
                ELSE IF deliver /\ m.type \in {"participant_joined",
                                                "participant_left"}
                THEN [listed EXCEPT ![u].clean = FALSE]
                ELSE listed
    /\ UNCHANGED <<wsRef, timers, isConnected, translateTo, isRecording,
                   chunks, unitsSent, turn, plan, fetch, reply, utilVars,
                   serverVars>>

\* fetchRoomData resolves in a room where nothing has been said yet: the
\* roster becomes the room's participants, all offline, and the transcript
\* becomes the (empty) message history
RoomDataFetched(u) ==
    /\ fetch[u]
    /\ nextMid = 1
    /\ fetch' = [fetch EXCEPT ![u] = FALSE]
    /\ participants' = [participants EXCEPT ![u] =
            [i \in DOMAIN RoomParticipants |->
                Entry(RoomParticipants[i], FALSE)]]
    /\ messages' = [messages EXCEPT ![u] = <<>>]
    /\ UNCHANGED <<socks, wsRef, view, timers, isConnected, translateTo,
                   isCreator, ended, micVars, plan, listed, reply, utilVars,
                   serverVars>>

\* the server answers GET /messages of the page's fetchRoomData with the
\* rows the messages table holds now
MessagesServed(u) ==
    /\ fetch[u]
    /\ ~reply[u].served
    /\ reply' = [reply EXCEPT ![u] = [served |-> TRUE, list |-> stored]]
    /\ UNCHANGED <<socks, wsRef, view, timers, isConnected, translateTo,
                   isCreator, ended, messages, micVars, plan, participants,
                   fetch, listed, utilVars, serverVars>>

\* messagesList.map of fetchRoomData: a row of the messages table as the
\* transcript shows it
HistoryMessage(row) ==
    [id |-> row.mid, speaker |-> row.speaker, seq |-> row.seq,
     target |-> IF row.tr = "" THEN row.lang ELSE row.target,
     tr |-> IF row.tr = "" THEN row.lang ELSE row.tr]

\* setMessages(messagesList.map(...)): the transcript becomes the rows
SetMessages(ms, rows) == [i \in DOMAIN rows |-> HistoryMessage(rows[i])]

\* fetchRoomData resolves with the answers of the server: the roster
\* becomes the room's participants, all offline, and the transcript the
\* message history
HistoryFetched(u) ==
    /\ fetch[u]
    /\ reply[u].served
    /\ fetch' = [fetch EXCEPT ![u] = FALSE]
    /\ reply' = [reply EXCEPT ![u] = NoReply]
    /\ participants' = [participants EXCEPT ![u] =
            [i \in DOMAIN RoomParticipants |->
                Entry(RoomParticipants[i], FALSE)]]
    /\ messages' = [messages EXCEPT ![u] = SetMessages(@, reply[u].list)]
    /\ UNCHANGED <<socks, wsRef, view, timers, isConnected, translateTo,
                   isCreator, ended, micVars, plan, listed, utilVars,
                   serverVars>>

\* the language effect keeps the messages of the new language and the
\* user's own
FilterMessages(ms, u, l) ==
    SelectSeq(ms, LAMBDA x : x.target = l \/ x.speaker = u)

\* the language <select> and the language effect
ChangeLanguage(u, l) ==
    /\ view[u] = "active"
    /\ l # translateTo[u]
    /\ plan.changes > 0
    /\ plan' = [plan EXCEPT !.changes = @ - 1]
    /\ translateTo' = [translateTo EXCEPT ![u] = l]
    /\ socks' = Send(socks, wsRef[u],
                     [CMsg("language_change", u) EXCEPT !.lang = l])
    /\ messages' = IF wsRef[u] # 0 /\ socks[wsRef[u]].rs = "OPEN"
                   THEN [messages EXCEPT ![u] = FilterMessages(@, u, l)]
                   ELSE messages
    /\ UNCHANGED <<wsRef, view, timers, isConnected, isCreator, ended,
                   micVars, rosterVars,
                   utilVars,
                   serverVars>>

\* the End Session button (rendered only when isCreator)
HandleEndSession(u) ==
    /\ view[u] = "active"
    /\ isCreator[u]
    /\ wsRef[u] # 0
    /\ socks[wsRef[u]].rs = "OPEN"
    /\ Len(socks[wsRef[u]].inq) < MaxQueue
    /\ socks' = Send(socks, wsRef[u], CMsg("end_session", u))
    /\ UNCHANGED <<clientVars, serverVars>>

\* handleMicClick while not recording, up to the await of getUserMedia
MicClickStart(u) ==
    /\ view[u] = "active"
    /\ ~isRecording[u]
    /\ plan.turns > 0
    /\ plan' = [plan EXCEPT !.turns = @ - 1]
    /\ chunks' = [chunks EXCEPT ![u] = <<>>]
    /\ turn' = [turn EXCEPT ![u] = @ + 1]
    /\ mic' = [mic EXCEPT ![u].grants = @ + 1]
    /\ UNCHANGED <<socks, wsRef, view, timers, isConnected, translateTo,
                   isCreator, ended, messages, isRecording, unitsSent,
                   rosterVars, utilVars,
                   serverVars>>

\* getUserMedia resolves: the pipeline is built, isRecording, speaking true
MicGranted(u) ==
    /\ mic[u].grants > 0
    /\ mic' = [mic EXCEPT ![u] = [grants |-> @.grants - 1, cur |-> "live",
                                  leaked |-> @.leaked \/ @.cur = "live"]]
    /\ isRecording' = [isRecording EXCEPT ![u] = TRUE]
    /\ socks' = Send(socks, wsRef[u],
                     [CMsg("speaking_status", u) EXCEPT !.flag = TRUE])
    /\ UNCHANGED <<wsRef, view, timers, isConnected, translateTo, isCreator,
                   ended, messages, chunks, unitsSent, turn, plan, rosterVars,
                   utilVars,
                   serverVars>>

\* getUserMedia rejects: the catch block
MicDenied(u) ==
    /\ mic[u].grants > 0
    /\ mic' = [mic EXCEPT ![u].grants = @ - 1]
    /\ UNCHANGED <<socks, wsRef, view, timers, isConnected, translateTo,
                   isCreator, ended, messages, isRecording, chunks, unitsSent, turn,
                   plan, rosterVars,
                   utilVars,
                   serverVars>>

\* the frame that onaudioprocess pushes as the k-th of the buffer: FrameLen
\* samples, each marked with the turn and the place it was captured at
Frame(u, k) == [i \in 1 .. FrameLen |-> [turn |-> turn[u], n |-> k, i |-> i]]

\* processor.onaudioprocess: one downsampled frame is pushed
AudioProcess(u) ==
    /\ mic[u].cur = "live" \/ mic[u].leaked
    /\ Len(chunks[u]) < plan.frames
    /\ chunks' = [chunks EXCEPT ![u] = Append(@, Frame(u, Len(@) + 1))]
    /\ UNCHANGED <<socks, wsRef, view, timers, isConnected, translateTo,
                   isCreator, ended, messages, isRecording, mic, unitsSent,
                   turn, plan, rosterVars, utilVars,
                   serverVars>>

\* a concatenation that keeps only the last frame
LastFrameOnly(arrays) ==
    IF arrays = <<>> THEN <<>> ELSE arrays[Len(arrays)]

\* concatenateFloat32Arrays: the frames' samples, frame after frame
concatenateFloat32Arrays(arrays) ==
    LET RECURSIVE Cat(_)
        Cat(a) == IF a = <<>> THEN <<>> ELSE Head(a) \o Cat(Tail(a))
    IN Cat(arrays)

\* handleMicClick while recording: speaking false, tear the pipeline down,
\* send the turn's frames as one WAV unit
MicClickStop(u) ==
    /\ view[u] = "active"
    /\ isRecording[u]
    /\ isRecording' = [isRecording EXCEPT ![u] = FALSE]
    /\ mic' = [mic EXCEPT ![u].cur = "none"]
    /\ LET S1 == Send(socks, wsRef[u],
                      [CMsg("speaking_status", u) EXCEPT !.flag = FALSE])
           open == wsRef[u] # 0 /\ socks[wsRef[u]].rs = "OPEN"
       IN IF chunks[u] # <<>> /\ open
          THEN /\ socks' = Send(S1, wsRef[u],
                      [CMsg("audio", u) EXCEPT
                          !.seq = unitsSent[u] + 1,
                          !.samples = concatenateFloat32Arrays(chunks[u])])
               /\ unitsSent' = [unitsSent EXCEPT ![u] = @ + 1]
          ELSE /\ socks' = S1
               /\ UNCHANGED unitsSent
    /\ chunks' = [chunks EXCEPT ![u] = <<>>]
    /\ UNCHANGED <<wsRef, view, timers, isConnected, translateTo, isCreator,
                   ended, messages, turn, plan, rosterVars, utilVars,
                   serverVars>>

\* ------------------------------------------------------- the resampler
\* Math.round(p / q) for p >= 0, q > 0: halves go up
Round(p, q) == (2 * p + q) \div (2 * q)

\* accum / count as a Float32: a fraction, NaN when both are zero
Quotient(accum, count) == [num |-> accum, den |-> count]
NaN == Quotient(0, 0)

\* downsampleBuffer: the buffer itself at the output rate, else one output
\* sample per window of the input, the mean of the window's samples.
\* offsetBuffer of turn k is nextOffsetBuffer of turn k - 1 (0 at first)
downsampleBuffer(buffer, sampleRate, outSampleRate) ==
    IF outSampleRate = sampleRate
    THEN [k \in 1 .. Len(buffer) |-> Quotient(buffer[k], 1)]
    ELSE
    LET newLength == Round(Len(buffer) * outSampleRate, sampleRate)
        RECURSIVE Sum(_, _)
        Sum(i, n) == IF i >= n \/ i >= Len(buffer) THEN 0
                     ELSE buffer[i + 1] + Sum(i + 1, n)
    IN [k \in 1 .. newLength |->
           LET offsetBuffer == Round((k - 1) * sampleRate, outSampleRate)
               nextOffsetBuffer == Round(k * sampleRate, outSampleRate)
               e == IF nextOffsetBuffer < Len(buffer)
                    THEN nextOffsetBuffer ELSE Len(buffer)
           IN Quotient(Sum(offsetBuffer, nextOffsetBuffer),
                       IF e > offsetBuffer THEN e - offsetBuffer ELSE 0)]

\* onaudioprocess hands one input buffer to downsampleBuffer
Downsample ==
    /\ ~dsp.done
    /\ dsp' = [dsp EXCEPT !.done = TRUE,
                          !.output = downsampleBuffer(dsp.input, dsp.rate,
                                                      OutRate)]
    /\ UNCHANGED <<socks, wsRef, view, timers, isConnected, translateTo,
                   isCreator, ended, messages, micVars, plan, rosterVars,
                   wavVars, translator, serverVars>>

\* --------------------------------------------------------- the container
\* sample values in half units: -1.5, -1, -0.5, 0, 0.5, 1, 1.5
Samples == -3 .. 3

\* the k-th byte of x, least significant first (the byte DataView stores);
\* bits above the field's width are dropped
Byte(x, k) == (x \div (256 ^ k)) % 256

\* view.setUint32(offset, x, true)
setUint32(x) == <<Byte(x, 0), Byte(x, 1), Byte(x, 2), Byte(x, 3)>>

\* view.setUint16(offset, x, false): most significant byte first
setUint16BigEndian(x) == <<Byte(x, 1), Byte(x, 0)>>

\* view.setUint16(offset, x, true)
setUint16(x) == <<Byte(x, 0), Byte(x, 1)>>

\* view.setInt16(offset, x, true): two's complement
setInt16(x) == setUint16(IF x < 0 THEN x + 65536 ELSE x)

\* writeString for the four tags (char codes)
writeString(str) ==
    CASE str = "RIFF" -> <<82, 73, 70, 70>>
      [] str = "WAVE" -> <<87, 65, 86, 69>>
      [] str = "fmt " -> <<102, 109, 116, 32>>
      [] str = "data" -> <<100, 97, 116, 97>>

\* Math.max(-1, Math.min(1, s)), then s < 0 ? s * 0x8000 : s * 0x7FFF as
\* setInt16 truncates it (s in half units)
Quantize(s) ==
    LET c == IF s < -2 THEN -2 ELSE IF s > 2 THEN 2 ELSE s
    IN IF c < 0 THEN -((-c * 32768) \div 2) ELSE (c * 32767) \div 2

\* bufferToWav: the 44-byte header, then the samples as 16-bit PCM, in an
\* ArrayBuffer of bufferSize bytes
bufferToWav(buffer) ==
    LET numChannels == 1
        sampleRate == 16000
        bitDepth == 16
        numSamples == Len(buffer)
        dataSize == numSamples * numChannels * (bitDepth \div 8)
        bufferSize == 44 + dataSize
        RECURSIVE Data(_)
        Data(b) == IF b = <<>> THEN <<>>
                   ELSE setInt16(Quantize(Head(b))) \o Data(Tail(b))
        written ==
            writeString("RIFF") \o setUint32(36 + dataSize)
            \o writeString("WAVE") \o writeString("fmt ")
            \o setUint32(16) \o setUint16(1) \o setUint16(numChannels)
            \o setUint32(sampleRate)
            \o setUint32(sampleRate * numChannels * (bitDepth \div 8))
            \o setUint16(numChannels * (bitDepth \div 8))
            \o setUint16(bitDepth)
            \o writeString("data") \o setUint32(dataSize)
            \o Data(buffer)
    IN [i \in 1 .. bufferSize |-> IF i <= Len(written) THEN written[i] ELSE 0]

\* handleMicClick hands the turn's samples to bufferToWav
EncodeWav ==
    /\ wav = <<>>
    /\ wav' = bufferToWav(pcm)
    /\ UNCHANGED <<socks, wsRef, view, timers, isConnected, translateTo,
                   isCreator, ended, messages, micVars, plan, rosterVars,
                   pcm, dsp, translator, serverVars>>

\* AudioSegment.from_file on the server: the fields of the RIFF/WAVE
\* header and the samples of the data chunk
ReadUint(bytes, offset, width) ==
    LET RECURSIVE Sum(_)
        Sum(k) == IF k = width THEN 0
                  ELSE bytes[offset + k + 1] * (256 ^ k) + Sum(k + 1)
    IN Sum(0)

DecodeWav(bytes) ==
    LET channels == ReadUint(bytes, 22, 2)
        bits == ReadUint(bytes, 34, 2)
        dataSize == ReadUint(bytes, 40, 4)
        count == dataSize \div (channels * (bits \div 8))
    IN [riffSize |-> ReadUint(bytes, 4, 4),
        format |-> ReadUint(bytes, 20, 2),
        channels |-> channels,
        sampleRate |-> ReadUint(bytes, 24, 4),
        bits |-> bits,
        dataSize |-> dataSize,
        samples |-> [i \in 1 .. count |->
            LET x == ReadUint(bytes, 44 + 2 * (i - 1), 2)
            IN IF x >= 32768 THEN x - 65536 ELSE x]]

\* ------------------------------------------------------------ the server
\* manager.connect (accept), the user/room check (4004 when not found) and
\* the roster snapshot taken before the receive loop
SrvConnect(s) ==
    /\ socks[s].srv = "none"
    /\ socks[s].rs = "CONNECTING"
    /\ socks' = IF roomFound
                THEN [socks EXCEPT ![s].accepted = TRUE, ![s].srv = "open",
                                   ![s].snap = srvLang]
                ELSE [socks EXCEPT ![s] = Deliver(
                         [@ EXCEPT !.accepted = TRUE, !.srv = "closed"],
                         <<CloseFrame(4004)>>)]
    /\ UNCHANGED <<clientVars, serverVars>>

\* end_session is honoured only from the room creator
EndSessionHonoured(u) == u = RoomCreator

\* a translator whose failure for one language loses every translation
TranslateAllOrNothing(src, dst, failed) ==
    IF src = dst \/ failed # {} THEN src ELSE dst

\* text_translator.translate for the unit's text: "" for the source text
\* itself (same language or failed call), else the language it is now in
Translate(src, dst, failed) ==
    IF src = dst THEN src
    ELSE IF <<src, dst>> \in cache THEN dst
    ELSE IF dst \in failed THEN src
    ELSE dst

\* self.language_mapping.get(l, l)
Normalize(l) == IF l \in {"zh", "zh-cn"} THEN "zh-CN" ELSE l

\* f"{text}:{src_lang}:{dest_lang}" of the normalised codes
CacheKey(asked) == <<asked[1], Normalize(asked[2]), Normalize(asked[3])>>

\* d[k] = v
Put(d, k, v) == [x \in DOMAIN d \cup {k} |-> IF x = k THEN v ELSE d[x]]

\* a translator that never finds its key
CacheHitNever(c, key) == FALSE

\* cache_key in self.cache
CacheHit(c, key) == key \in DOMAIN c

\* one call translate(text, src_lang, dest_lang) with what the service does
\* if it is asked: the early return, the cache, the service call that is
\* cached when it succeeds and gives the text back when it raises
TranslateCall(text, src, dst) ==
    /\ translator.n < MaxRequests
    /\ LET asked == <<text, src, dst>>
           cache_key == CacheKey(asked)
           T1 == [translator EXCEPT !.n = @ + 1, !.prev = translator.last.key]
           Last(v, s) == [key |-> asked, value |-> v, service |-> s]
           Got(g, v) == IF asked \in DOMAIN g THEN g ELSE Put(g, asked, v)
       IN IF text = "" \/ src = dst
          THEN translator' = [T1 EXCEPT
                  !.last = Last(Text(text, src, 0), FALSE)]
          ELSE IF CacheHit(translator.cache, cache_key)
          THEN translator' = [T1 EXCEPT
                  !.got = Got(@, translator.cache[cache_key]),
                  !.last = Last(translator.cache[cache_key], FALSE)]
          ELSE
             \/ \E v \in Versions :
                   LET translated == Text(text, cache_key[3], v)
                   IN translator' = [T1 EXCEPT
                         !.calls = @ + 1,
                         !.cache = Put(@, cache_key, translated),
                         !.got = Got(@, translated),
                         !.last = Last(translated, TRUE)]
             \/ translator' = [T1 EXCEPT
                   !.calls = @ + 1,
                   !.last = Last(Text(text, src, 0), TRUE)]
    /\ UNCHANGED <<socks, wsRef, view, timers, isConnected, translateTo,
                   isCreator, ended, messages, micVars, plan, rosterVars,
                   wavVars, dsp, serverVars>>

\* the per-participant messages of one unit, in roster order
Variants(snap, speaker, seq, rec, failed) ==
    [p \in Users |->
        [SMsg("transcription") EXCEPT
            !.speaker = speaker, !.seq = seq, !.lang = rec.lang,
            !.text = rec.text, !.conf = rec.conf,
            !.target = snap[p], !.to = p,
            !.tr = IF snap[p] = rec.lang THEN ""
                   ELSE Translate(rec.lang, snap[p], failed)]]

\* the languages the unit has to be translated to
TargetLanguages(snap, rec) == {snap[p] : p \in Users} \ {rec.lang}

\* a handler that skips nothing
SkippedNever(rec) == FALSE

\* the unit is dropped before anything is stored or sent
Skipped(rec) == rec.size = 0 \/ rec.text = "" \/ rec.conf < ConfFloor

\* the client's Close frame arrives: WebSocketDisconnect in the receive loop
SrvPeerClose(s) ==
    /\ socks[s].srv = "open"
    /\ socks[s].job = <<>>
    /\ socks[s].inq # <<>>
    /\ Head(socks[s].inq).type = "close"
    /\ socks' = [socks EXCEPT ![s] = Deliver(
                    [@ EXCEPT !.srv = "closed", !.inq = Tail(@)],
                    <<CloseFrame(1000)>>)]
    /\ online' = [online EXCEPT ![socks[s].owner] = FALSE]
    /\ UNCHANGED <<clientVars, roomFound, srvLang, endedBy, cache, nextMid,
                   nextTid, stored>>

\* one inbound control frame of transport s is handled; a frame other than
\* join on a transport that has not joined closes it with 1008
SrvRecvText(s) ==
    /\ socks[s].srv = "open"
    /\ socks[s].job = <<>>
    /\ socks[s].inq # <<>>
    /\ Head(socks[s].inq).type # "close"
    /\ Head(socks[s].inq).type # "audio" \/ ~socks[s].joined
    /\ LET m == Head(socks[s].inq)
           u == socks[s].owner
           S1 == [socks EXCEPT ![s].inq = Tail(@)]
       IN CASE ~socks[s].joined /\ m.type # "join" ->
                 /\ socks' = [S1 EXCEPT ![s] = Deliver(
                                 [@ EXCEPT !.srv = "closed"],
                                 <<CloseFrame(1008)>>)]
                 /\ UNCHANGED <<online, srvLang, endedBy>>
            [] m.type = "join" ->
                 /\ socks' = [S1 EXCEPT ![s] = Deliver(
                                 [@ EXCEPT !.joined = TRUE],
                                 <<[SMsg("participants_list")
                                      EXCEPT !.creator = RoomCreator,
                                             !.list = OnlineList(
                                                [online EXCEPT ![u] = TRUE])
                                   ]>>)]
                 /\ online' = [online EXCEPT ![u] = TRUE]
                 /\ UNCHANGED <<srvLang, endedBy>>
            [] socks[s].joined /\ m.type = "leave" ->
                 /\ socks' = S1
                 /\ online' = [online EXCEPT ![u] = FALSE]
                 /\ UNCHANGED <<srvLang, endedBy>>
            [] socks[s].joined /\ m.type = "language_change" ->
                 /\ socks' = S1
                 /\ srvLang' = [srvLang EXCEPT ![u] = m.lang]
                 /\ UNCHANGED <<online, endedBy>>
            [] socks[s].joined /\ m.type = "speaking_status" ->
                 /\ socks' = S1
                 /\ UNCHANGED <<online, srvLang, endedBy>>
            [] socks[s].joined /\ m.type = "end_session" ->
                 IF EndSessionHonoured(m.user)
                 THEN /\ socks' = [t \in DOMAIN S1 |->
                            IF S1[t].srv = "open"
                            THEN Deliver([S1[t] EXCEPT !.srv = "closed"],
                                         <<[SMsg("session_ended")
                                              EXCEPT !.by = m.user],
                                           CloseFrame(1000)>>)
                            ELSE S1[t]]
                      /\ endedBy' = m.user
                      /\ UNCHANGED <<online, srvLang>>
                 ELSE /\ socks' = S1
                      /\ UNCHANGED <<online, srvLang, endedBy>>
    /\ UNCHANGED <<clientVars, roomFound, cache, nextMid,
                   nextTid, stored>>

\* the handler of transport s with recognition result rec for its next
\* audio unit: the skip test, create_transcription, the translations for the
\* snapshot's target languages
Pipeline(s, rec) ==
    /\ socks[s].srv = "open"
    /\ socks[s].job = <<>>
    /\ socks[s].inq # <<>>
    /\ Head(socks[s].inq).type = "audio"
    /\ socks[s].joined
    /\ LET m == Head(socks[s].inq)
           u == socks[s].owner
           S1 == [socks EXCEPT ![s].inq = Tail(@), ![s].call = "none"]
       IN IF Skipped(rec)
          THEN /\ socks' = S1
               /\ UNCHANGED <<cache, nextTid>>
          ELSE \E failed \in SUBSET TargetLanguages(socks[s].snap, rec) :
               /\ socks' = [S1 EXCEPT ![s].job =
                     Variants(socks[s].snap, u, m.seq, rec, failed)]
               /\ cache' = cache \cup
                     {<<rec.lang, l>> : l \in
                        TargetLanguages(socks[s].snap, rec) \ failed}
               /\ nextTid' = nextTid + 1
    /\ UNCHANGED <<clientVars, roomFound, online, srvLang, endedBy, nextMid,
                   stored>>

\* the handler of transport s has recognised its next audio unit and
\* create_transcription raises: the exception leaves the receive loop,
\* except Exception calls manager.disconnect and the endpoint returns, which
\* ends the connection (with a Close frame of code 1000, or without one,
\* which the client sees as 1006, depending on the server build)
SrvPersistRaises(s) ==
    /\ socks[s].srv = "open"
    /\ socks[s].job = <<>>
    /\ socks[s].inq # <<>>
    /\ Head(socks[s].inq).type = "audio"
    /\ socks[s].joined
    /\ \E rec \in RecResults, c \in {1000, 1006} :
          /\ ~Skipped(rec)
          /\ socks' = [socks EXCEPT ![s] = Deliver(
                          [@ EXCEPT !.srv = "closed", !.inq = Tail(@)],
                          <<CloseFrame(c)>>)]
    /\ online' = [online EXCEPT ![socks[s].owner] = FALSE]
    /\ UNCHANGED <<clientVars, roomFound, srvLang, endedBy, cache, nextMid,
                   nextTid, stored>>

\* receive_bytes returns one audio unit, spoken in one of the room's
\* languages or not recognisable
SrvRecvBytes(s) == \E rec \in RecResults : Pipeline(s, rec)

\* receive_bytes has returned the next audio unit of transport s and the
\* handler is inside whisper_engine.transcribe, a call the listing makes
\* with no timeout
SrvTranscribeStarts(s) ==
    /\ socks[s].srv = "open"
    /\ socks[s].job = <<>>
    /\ socks[s].inq # <<>>
    /\ Head(socks[s].inq).type = "audio"
    /\ socks[s].joined
    /\ socks[s].call = "none"
    /\ socks' = [socks EXCEPT ![s].call = "transcribe"]
    /\ UNCHANGED <<clientVars, serverVars>>

\* the recognition engine answers and the handler goes on with the unit
SrvTranscribeReturns(s) == socks[s].call = "transcribe" /\ SrvRecvBytes(s)

\* receive_bytes returns one audio unit, spoken in a language that is
\* nobody's target
SrvRecvForeign(s) == \E rec \in ForeignResults : Pipeline(s, rec)

\* one turn of the broadcast loop: create_message, then manager.broadcast of
\* this participant's message to every connection of the room
SrvBroadcast(s) ==
    /\ socks[s].job # <<>>
    /\ LET m == [Head(socks[s].job) EXCEPT !.mid = nextMid]
       IN /\ socks' = [t \in DOMAIN socks |->
                      LET x == IF t = s
                               THEN [socks[t] EXCEPT !.job = Tail(@)]
                               ELSE socks[t]
                      IN IF socks[t].srv = "open"
                         THEN Deliver(x, <<m>>)
                         ELSE x]
          /\ stored' = Append(stored, m)
    /\ nextMid' = nextMid + 1
    /\ UNCHANGED <<clientVars, roomFound, online, srvLang, endedBy, cache,
                   nextTid>>

\* WebSocketDisconnect: the server notices that the peer is gone
SrvDisconnect(s) ==
    /\ socks[s].srv = "open"
    /\ socks[s].job = <<>>
    /\ socks[s].rs = "CLOSED"
    /\ socks' = [socks EXCEPT ![s].srv = "closed", ![s].inq = <<>>]
    /\ online' = [online EXCEPT ![socks[s].owner] = FALSE]
    /\ UNCHANGED <<clientVars, roomFound, srvLang, endedBy, cache, nextMid,
                   nextTid, stored>>

\* ------------------------------------------------------- specifications
\* both participants are in the room, each on one OPEN transport: with
\* join handled (j) or with join just sent by onopen, and with the page's
\* fetchRoomData still on its way for the participants loading.  The two
\* languages are interchangeable, so the creator's is fixed
Loaded(p, j, loading) ==
    /\ plan = p
    /\ translateTo \in {f \in [Users -> Langs] : f[RoomCreator] = "en"}
    /\ srvLang = translateTo
    /\ socks = [u \in Users |->
          [NewSock(u, translateTo[u], "effect") EXCEPT
              !.rs = "OPEN", !.accepted = TRUE, !.opened = TRUE,
              !.srv = "open",
              !.joined = j, !.first = "join", !.snap = translateTo,
              !.inq = IF j THEN <<>> ELSE <<CMsg("join", u)>>]]
    /\ wsRef = [u \in Users |-> u]
    /\ view = [u \in Users |-> "active"]
    /\ timers = [u \in Users |-> [l \in Langs |-> 0]]
    /\ isConnected = [u \in Users |-> TRUE]
    /\ isCreator = [u \in Users |-> j /\ u = RoomCreator]
    /\ ended = [u \in Users |-> FALSE]
    /\ messages = [u \in Users |-> <<>>]
    /\ isRecording = [u \in Users |-> FALSE]
    /\ chunks = [u \in Users |-> <<>>]
    /\ turn = [u \in Users |-> 0]
    /\ mic = [u \in Users |-> NoMic]
    /\ unitsSent = [u \in Users |-> 0]
    /\ participants = [u \in Users |->
          [i \in DOMAIN RoomParticipants |->
              Entry(RoomParticipants[i], j \/ RoomParticipants[i] = u)]]
    /\ fetch = [u \in Users |-> u \in loading]
    /\ reply = [u \in Users |-> NoReply]
    /\ listed = [u \in Users |->
          IF j THEN [seen |-> TRUE, ids |-> Users, clean |-> TRUE]
          ELSE NoList]
    /\ pcm = <<>>
    /\ wav = <<>>
    /\ Idle
    /\ roomFound = TRUE
    /\ online = [u \in Users |-> j]
    /\ endedBy = 0
    /\ cache = {}
    /\ nextMid = 1
    /\ nextTid = 1
    /\ stored = <<>>

\* the same with every page loaded
Session(p, j) == Loaded(p, j, {})

InitRoom == Session(Plan(0, MaxUnits, 0), TRUE)
InitLang == Session(Plan(0, MaxTurns, MaxChanges), TRUE)
InitEnd == Session(Plan(0, 0, MaxChanges), FALSE)

\* the transport's life: connect, open, fail, close, reconnect
LifecycleStep ==
    \/ \E u \in Users : Mount(u)
    \/ \E u \in Users : Cleanup(u)
    \/ \E s \in SockIds : SocketOpen(s)
    \/ \E s \in SockIds : NetFail(s)
    \/ \E s \in SockIds : OnClose(s)
    \/ \E u \in Users, l \in Langs : TimerFire(u, l)
    \/ \E s \in SockIds : ClientRecv(s)
    \/ \E s \in SockIds : SrvConnect(s)
    \/ \E s \in SockIds : SrvPeerClose(s)
    \/ \E s \in SockIds : SrvRecvText(s)
    \/ \E s \in SockIds : SrvDisconnect(s)

\* the recording turn
MicStep ==
    \/ \E u \in Users : MicClickStart(u)
    \/ \E u \in Users : MicGranted(u)
    \/ \E u \in Users : MicDenied(u)
    \/ \E u \in Users : AudioProcess(u)
    \/ \E u \in Users : MicClickStop(u)

\* one participant's transport from mount to session end
Next ==
    \/ LifecycleStep
    \/ \E u \in Users : HandleEndSession(u)

Spec == Init /\ [][Next]_vars

\* the browser runs every timer it has scheduled
SpecFair == Spec /\ \A u \in Users, l \in Langs : WF_vars(TimerFire(u, l))

\* the same, with the effect's dependencies changing
NextRerun ==
    \/ Next
    \/ \E u \in Users : EffectRerun(u)

SpecRerun == Init /\ [][NextRerun]_vars

\* one participant's transport with everything the user can send on it
\* one recording turn among language changes, or recording turns alone
InitSend ==
    \/ Boot(Plan(MaxResends, 1, MaxChanges))
    \/ Boot(Plan(MaxResends, MaxTurns, 0))

NextSend ==
    \/ LifecycleStep
    \/ MicStep
    \/ \E u \in Users, l \in Langs : ChangeLanguage(u, l)
    \/ \E u \in Users : HandleEndSession(u)

SpecSend == InitSend /\ [][NextSend]_vars

\* the room in session: two participants on stable transports, speaking
NextRoom ==
    \/ MicStep
    \/ \E s \in SockIds : ClientRecv(s)
    \/ \E s \in SockIds : SrvRecvText(s)
    \/ \E s \in SockIds : SrvRecvBytes(s)
    \/ \E s \in SockIds : SrvBroadcast(s)

SpecRoom == InitRoom /\ [][NextRoom]_vars

\* the room in session, with participants changing their target language
NextLang ==
    \/ NextRoom
    \/ \E u \in Users, l \in Langs : ChangeLanguage(u, l)

SpecLang == InitLang /\ [][NextLang]_vars

\* the room in session until its creator ends it
NextEnd ==
    \/ \E u \in Users : HandleEndSession(u)
    \/ \E u \in Users, l \in Langs : ChangeLanguage(u, l)
    \/ \E u \in Users : Cleanup(u)
    \/ \E s \in SockIds : ClientRecv(s)
    \/ \E s \in SockIds : OnClose(s)
    \/ \E s \in SockIds : SrvPeerClose(s)
    \/ \E s \in SockIds : SrvRecvText(s)

SpecEnd == InitEnd /\ [][NextEnd]_vars

\* the room in session where a third language is spoken too
InitPipe == Session(Plan(0, MaxTurns, 0), TRUE)

NextPipe ==
    \/ NextRoom
    \/ \E s \in SockIds : SrvRecvForeign(s)

SpecPipe == InitPipe /\ [][NextPipe]_vars

\* the room in session where the database may fail
InitFault == Session(Plan(0, MaxTurns, 0), TRUE)

NextFault ==
    \/ NextRoom
    \/ \E s \in SockIds : SrvPersistRaises(s)

SpecFault == InitFault /\ [][NextFault]_vars

\* the room in session with the recognition call as a step of its own.  The
\* browser delivers the frames it holds and the server runs the handlers
\* that can run; nothing makes the recognition engine answer
InitStall == Session(Plan(0, MaxTurns, 0), TRUE)

NextStall ==
    \/ MicStep
    \/ \E s \in SockIds : ClientRecv(s)
    \/ \E s \in SockIds : SrvRecvText(s)
    \/ \E s \in SockIds : SrvTranscribeStarts(s)
    \/ \E s \in SockIds : SrvTranscribeReturns(s)
    \/ \E s \in SockIds : SrvBroadcast(s)

SpecStall ==
    /\ InitStall /\ [][NextStall]_vars
    /\ \A s \in Users :
          /\ WF_vars(ClientRecv(s))
          /\ WF_vars(SrvRecvText(s))
          /\ WF_vars(SrvTranscribeStarts(s))
          /\ WF_vars(SrvBroadcast(s))

\* server text frames that onmessage cannot use: not JSON, of an unknown
\* type, or of a known type without the fields the case reads (a field
\* that is absent has the default of SMsg)
Malformed ==
    {SMsg("notjson"), SMsg("unknown"), SMsg("participant_joined"),
     SMsg("participant_left"), SMsg("speaking_status"),
     SMsg("session_ended"), SMsg("transcription")}
    \cup {[SMsg("transcription") EXCEPT !.speaker = x, !.lang = "en",
                                        !.target = "en", !.text = "hello"] :
             x \in Users}

\* event.data of a message event: frame m arrives on transport s, one
\* such frame at a time in the room
FrameArrives(s, m) ==
    /\ socks[s].srv = "open"
    /\ socks[s].rs = "OPEN"
    /\ \A t \in SockIds : socks[t].out = <<>>
    /\ socks' = [socks EXCEPT ![s] = Deliver(@, <<m>>)]
    /\ UNCHANGED <<clientVars, serverVars>>

\* two participants joining the room until its creator ends the session,
\* with frames onmessage cannot use among the server's
InitFrames == Session(Plan(0, 0, 0), FALSE)

NextFrames ==
    \/ \E s \in SockIds : ClientRecv(s)
    \/ \E s \in SockIds : SrvRecvText(s)
    \/ \E u \in Users : HandleEndSession(u)
    \/ \E s \in SockIds, m \in Malformed : FrameArrives(s, m)

SpecFrames == InitFrames /\ [][NextFrames]_vars

\* the room in session while one participant's page is still loading
InitHistory == Loaded(Plan(0, MaxTurns, 0), TRUE, Users \ {RoomCreator})

NextHistory ==
    \/ NextRoom
    \/ \E u \in Users : MessagesServed(u)
    \/ \E u \in Users : HistoryFetched(u)

SpecHistory == InitHistory /\ [][NextHistory]_vars

\* the recording turns of the room in session, with longer turns
InitMic == Session([Plan(0, MaxUnits, 0) EXCEPT !.frames = MaxFrames], TRUE)

NextMic ==
    \/ MicStep
    \/ \E s \in SockIds : SrvRecvText(s)
    \/ \E s \in SockIds : SrvRecvBytes(s)

SpecMic == InitMic /\ [][NextMic]_vars

\* the encoder alone, on every buffer of up to MaxSamples samples
Buffers == UNION {[1 .. n -> Samples] : n \in 0 .. MaxSamples}

InitWav == Page(Plan(0, 0, 0)) /\ pcm \in Buffers /\ wav = <<>> /\ Idle

NextWav == EncodeWav

SpecWav == InitWav /\ [][NextWav]_vars

\* the resampler alone, on every buffer of up to MaxInput samples at every
\* rate
Inputs == UNION {[1 .. n -> {-1, 1, 2}] : n \in 0 .. MaxInput}

InitDown ==
    /\ Page(Plan(0, 0, 0)) /\ pcm = <<>> /\ wav = <<>>
    /\ translator = NoTranslator
    /\ dsp \in [rate : Rates, input : Inputs, done : {FALSE},
                 output : {<<>>}]

NextDown == Downsample

SpecDown == InitDown /\ [][NextDown]_vars

\* the translator alone: any calls in any order
InitCache == Boot(Plan(0, 0, 0))

NextCache ==
    \E text \in Texts, src \in Codes, dst \in Codes :
        TranslateCall(text, src, dst)

SpecCache == InitCache /\ [][NextCache]_vars

\* a participant that has no transport in the model joins the room: the
\* registry marks it online and participant_joined goes to every joined
\* transport
PeerJoin(x) ==
    /\ view[x] = "absent"
    /\ \A s \in SockIds : Len(socks[s].out) < MaxPresence
    /\ \E s \in SockIds : socks[s].srv = "open" /\ socks[s].joined
    /\ online' = [online EXCEPT ![x] = TRUE]
    /\ socks' = [s \in DOMAIN socks |->
          IF socks[s].srv = "open" /\ socks[s].joined
          THEN Deliver(socks[s],
                  <<[SMsg("participant_joined") EXCEPT !.user = x]>>)
          ELSE socks[s]]
    /\ UNCHANGED <<clientVars, roomFound, srvLang, endedBy, cache, nextMid,
                   nextTid, stored>>

\* it leaves or its transport is lost: offline, participant_left fanned out
PeerLeave(x) ==
    /\ view[x] = "absent"
    /\ online[x]
    /\ \A s \in SockIds : Len(socks[s].out) < MaxPresence
    /\ \E s \in SockIds : socks[s].srv = "open" /\ socks[s].joined
    /\ online' = [online EXCEPT ![x] = FALSE]
    /\ socks' = [s \in DOMAIN socks |->
          IF socks[s].srv = "open" /\ socks[s].joined
          THEN Deliver(socks[s],
                  <<[SMsg("participant_left") EXCEPT !.user = x]>>)
          ELSE socks[s]]
    /\ UNCHANGED <<clientVars, roomFound, srvLang, endedBy, cache, nextMid,
                   nextTid, stored>>

\* it starts or stops speaking: speaking_status fanned out
PeerSpeaking(x, f) ==
    /\ view[x] = "absent"
    /\ online[x]
    /\ \A s \in SockIds : Len(socks[s].out) < MaxPresence
    /\ \E s \in SockIds : socks[s].srv = "open" /\ socks[s].joined
    /\ socks' = [s \in DOMAIN socks |->
          IF socks[s].srv = "open" /\ socks[s].joined
          THEN Deliver(socks[s],
                  <<[SMsg("speaking_status") EXCEPT !.user = x,
                                                    !.flag = f]>>)
          ELSE socks[s]]
    /\ UNCHANGED <<clientVars, serverVars>>

\* one participant's page and transport while the others come and go
InitRoster == Boot(Plan(MaxResends, 0, 0))

NextRoster ==
    \/ LifecycleStep
    \/ \E u \in Users : RoomDataFetched(u)
    \/ \E x \in Users : PeerJoin(x)
    \/ \E x \in Users : PeerLeave(x)
    \/ \E x \in Users, f \in BOOLEAN : PeerSpeaking(x, f)

SpecRoster == InitRoster /\ [][NextRoster]_vars

\* --------------------------------------------------------------- claims
\* the transcription frames among the frames q
Units(q) == SelectSeq(q, LAMBDA m : m.type = "transcription")

\* C1: every transcription message a transport receives was built for that
\* transport's own participant, and carries the participant's own speech or
\* the participant's target language
C1_PersonalisedFanOut ==
    \A s \in SockIds : \A i \in DOMAIN socks[s].out :
        LET m == socks[s].out[i]
            p == socks[s].owner
        IN m.type = "transcription" =>
              /\ m.to = p
              /\ m.speaker = p \/ m.target = srvLang[p]

\* what participant u has in the transcript, what transport s still brings,
\* what the pipeline of transport t is still sending and what t has still to
\* handle, as speaker/seq pairs in order
Tag(m) == [speaker |-> m.speaker, seq |-> m.seq]
Seen(u) == [i \in DOMAIN messages[u] |-> Tag(messages[u][i])]
Coming(s) == LET q == Units(socks[s].out) IN [i \in DOMAIN q |-> Tag(q[i])]
Sending(t) == [i \in DOMAIN socks[t].job |-> Tag(socks[t].job[i])]
Waiting(t) ==
    LET q == SelectSeq(socks[t].inq, LAMBDA m : m.type = "audio")
    IN [i \in DOMAIN q |-> [speaker |-> q[i].user, seq |-> q[i].seq]]
InOrder(q) ==
    \A i, j \in DOMAIN q :
        i < j /\ q[i].speaker = q[j].speaker => q[i].seq <= q[j].seq

C3_VisibleMatchesTarget ==
    \A u \in Users : \A i \in DOMAIN messages[u] :
        \/ messages[u][i].target = translateTo[u]
        \/ messages[u][i].speaker = u

\* C4: when a handler starts the dispatch of a unit, the target language it
\* uses for every participant is the one the registry holds for that
\* participant (the last processed language_change)
C4_LanguageHonoured ==
    [][\A s \in SockIds :
          socks[s].job = <<>> /\ socks'[s].job # <<>> =>
             \A i \in DOMAIN socks'[s].job :
                socks'[s].job[i].target = srvLang[socks'[s].job[i].to]]_vars

\* C5: a participant has at most one connecting or open transport
C5_OneActiveTransport ==
    \A u \in Users :
        Cardinality({s \in SockIds : socks[s].owner = u /\ Live(s)}) <= 1

Abnormal(u) ==
    {s \in SockIds : socks[s].owner = u /\ socks[s].code \notin {0, 1000}}
Reconnects(u) ==
    {s \in SockIds : socks[s].owner = u /\ socks[s].via = "timer"}

C7_NotFoundNotRetried ==
    [][\A s \in SockIds :
          socks[s].code = 0 /\ socks'[s].code = 4004 => timers' = timers]_vars

\* C8: a client that has received session_ended opens no new transport
C8_SessionEndedTerminal ==
    [][Len(socks') > Len(socks) =>
          ~ended[socks'[Len(socks')].owner]]_vars

OnlineIds(u) ==
    {participants[u][i].id : i \in
        {k \in DOMAIN participants[u] : participants[u][k].isOnline}}
KnownIds(ps) == {ps[i].id : i \in DOMAIN ps}

\* C11: once a client has processed participants_list and no join or leave
\* event after it, the participants it shows as online are exactly the
\* participants that message listed
C11_RosterSnapshot ==
    \A u \in Users :
        listed[u].seen /\ listed[u].clean => OnlineIds(u) = listed[u].ids

\* the target languages of the variants job that are not its source language
\* and were not in the translation cache c: an external call was made for each
ExternalCalls(job, c) ==
    {job[i].target : i \in DOMAIN job}
       \ {l \in Langs : l = job[1].lang \/ <<job[1].lang, l>> \in c}

\* the distinct target languages the registry holds for the online
\* participants that need an external call for a unit in language src
Wanted(src, c) ==
    {srvLang[p] : p \in {q \in Users : online[q]}}
       \ {l \in Langs : l = src \/ <<src, l>> \in c}

\* C12: when a handler translates a unit, the number of external translation
\* calls it makes equals the number of distinct target languages among the
\* online participants (those that differ from the source language and are
\* not cached)
C12_TranslationDedup ==
    [][\A s \in SockIds :
          socks[s].job = <<>> /\ socks'[s].job # <<>> =>
             Cardinality(ExternalCalls(socks'[s].job, cache))
                = Cardinality(Wanted(socks'[s].job[1].lang, cache))]_vars

\* C13: no message of a unit with empty text or with a confidence below the
\* floor is ever built or sent, and the step that drops such a unit changes
\* nothing but the handler's input: no frame is sent, nothing is stored, the
\* registry and every transcript stay as they were
C13_SilentAbort ==
    /\ [](\A s \in SockIds :
            \A m \in {socks[s].job[i] : i \in DOMAIN socks[s].job}
                     \cup {socks[s].out[i] : i \in DOMAIN socks[s].out} :
               m.type = "transcription" =>
                  m.text # "" /\ m.conf >= ConfFloor)
    /\ [][\A s \in SockIds :
             /\ socks[s].inq # <<>>
             /\ Head(socks[s].inq).type = "audio"
             /\ socks'[s].inq = Tail(socks[s].inq)
             /\ socks'[s].job = <<>>
             => /\ serverVars' = serverVars
                /\ messages' = messages
                /\ \A t \in SockIds :
                      /\ socks'[t].out = socks[t].out
                      /\ socks'[t].job = socks[t].job]_vars

\* a unit was sent and handled, and nothing was stored or sent for it
C13_Witness ==
    \E u \in Users :
        /\ unitsSent[u] > 0
        /\ nextTid = 1
        /\ \A s \in SockIds :
              /\ socks[s].job = <<>>
              /\ \A i \in DOMAIN socks[s].inq :
                    socks[s].inq[i].type # "audio"

\* C14: when a handler has translated a unit, there is one message for every
\* participant; a participant whose target language differs from the unit's
\* gets the source text when the translation to that language failed (it is
\* not in the cache afterwards) and the translation when it did not, whatever
\* happened to the other languages
C14_PerLanguageFallback ==
    [][\A s \in SockIds :
          socks[s].job = <<>> /\ socks'[s].job # <<>> =>
             /\ {socks'[s].job[i].to : i \in DOMAIN socks'[s].job} = Users
             /\ \A i \in DOMAIN socks'[s].job :
                   LET v == socks'[s].job[i]
                   IN v.target # v.lang =>
                         v.tr = IF <<v.lang, v.target>> \in cache'
                                THEN v.target ELSE v.lang]_vars

\* one unit with the translation to one participant's language failed and
\* the translation to another's delivered
C14_Witness ==
    \E s \in SockIds : \E i, j \in DOMAIN socks[s].job :
        /\ socks[s].job[i].target # socks[s].job[i].lang
        /\ socks[s].job[i].tr = socks[s].job[i].lang
        /\ socks[s].job[j].target # socks[s].job[j].lang
        /\ socks[s].job[j].tr = socks[s].job[j].target

\* C15: the message built for participant P carries no translated text
\* exactly when P is the speaker or P's target language is the unit's
\* language
C15_NullTranslation ==
    \A s \in SockIds : \A i \in DOMAIN socks[s].job :
        LET v == socks[s].job[i]
        IN v.tr = "" <=> (v.to = v.speaker \/ v.target = v.lang)

\* C16: a participant's transcript holds at most one message of a unit
C16_OneMessagePerUnit ==
    \A u \in Users : \A i, j \in DOMAIN messages[u] :
        i # j => Tag(messages[u][i]) # Tag(messages[u][j])

\* transport s delivers its next frame to onmessage in this step
Delivers(s) ==
    /\ socks[s].rs = "OPEN"
    /\ socks[s].out # <<>>
    /\ socks'[s].out = Tail(socks[s].out)

\* C17: a participant_left for X changes nothing in the roster but the
\* online flag of X's entry, which becomes false, and no step makes the
\* set of participant ids of a roster smaller
C17_LeaveKeepsRecord ==
    [][\A s \in SockIds :
          LET u == socks[s].owner
              old == participants[u]
              new == participants'[u]
          IN /\ KnownIds(old) \subseteq KnownIds(new)
             /\ Delivers(s) /\ Head(socks[s].out).type = "participant_left"
                => /\ DOMAIN new = DOMAIN old
                   /\ \A i \in DOMAIN old :
                         new[i] = IF old[i].id = Head(socks[s].out).user
                                  THEN [old[i] EXCEPT !.isOnline = FALSE]
                                  ELSE old[i]]_vars

\* C18: a roster has at most one entry per participant id
C18_RosterUnique ==
    \A u \in Users : \A i, j \in DOMAIN participants[u] :
        i # j => participants[u][i].id # participants[u][j].id

\* a client that was sent a list with itself alone shows a participant that
\* a participant_joined event added
C18_Witness ==
    \E u \in Users :
        /\ listed[u].seen
        /\ listed[u].ids = {u}
        /\ ~listed[u].clean
        /\ \E i \in DOMAIN participants[u] :
              participants[u][i].id # u /\ participants[u][i].isOnline

\* the audio units among the frames q
Audio(q) == SelectSeq(q, LAMBDA m : m.type = "audio")

\* the samples of the first k frames captured in turn n, in capture order
Captured(n, k) ==
    [j \in 1 .. k * FrameLen |->
        [turn |-> n, n |-> ((j - 1) \div FrameLen) + 1,
         i |-> ((j - 1) % FrameLen) + 1]]

\* C19: a participant has sent at most as many audio units as it has
\* started turns; a step puts at most one more audio unit on a transport,
\* it is the owner's Stop, and the unit holds exactly the samples of the
\* frames pushed since the turn's Start, in capture order; and the frame
\* buffer is empty when a turn has just been started
C19_OneUnitPerTurn ==
    /\ [](\A u \in Users : unitsSent[u] <= turn[u])
    /\ [][\A s \in SockIds :
             LET u == socks[s].owner
                 old == Audio(socks[s].inq)
                 new == Audio(socks'[s].inq)
             IN Len(new) > Len(old) =>
                   /\ Len(new) = Len(old) + 1
                   /\ isRecording[u] /\ ~isRecording'[u]
                   /\ new[Len(new)].samples
                         = Captured(turn[u], Len(chunks[u]))
                   /\ chunks'[u] = <<>>]_vars
    /\ [][\A u \in Users : turn'[u] # turn[u] => chunks'[u] = <<>>]_vars

\* the unit of a participant's second turn, made of two frames, is on its
\* way to the server
C19_Witness ==
    \E s \in SockIds : \E i \in DOMAIN socks[s].inq :
        /\ socks[s].inq[i].type = "audio"
        /\ socks[s].inq[i].seq = 2
        /\ socks[s].inq[i].samples = Captured(2, 2)

\* C20: the container bufferToWav makes of N samples has 44 + 2N bytes; its
\* header declares PCM at 16000 Hz, 1 channel, 16 bits, a RIFF size of
\* 36 + 2N and a data size of 2N; and decoding it gives N samples, each the
\* 16-bit value of the sample encoded
C20_ContainerRoundTrip ==
    wav # <<>> =>
        LET N == Len(pcm)
            d == DecodeWav(wav)
        IN /\ Len(wav) = 44 + 2 * N
           /\ SubSeq(wav, 1, 4) = <<82, 73, 70, 70>>
           /\ d.riffSize = 36 + 2 * N
           /\ d.format = 1
           /\ d.sampleRate = 16000
           /\ d.channels = 1
           /\ d.bits = 16
           /\ d.dataSize = 2 * N
           /\ Len(d.samples) = N
           /\ \A i \in 1 .. N : d.samples[i] = Quantize(pcm[i])

\* a buffer with a negative and a positive sample has been encoded
C20_Witness ==
    /\ wav # <<>>
    /\ Len(pcm) = 2
    /\ pcm[1] < 0
    /\ pcm[2] > 0

\* the source samples (by index from 0) of output sample k (from 0): those
\* with index in [round(k * r), round((k + 1) * r)), r = rate / 16000
Window(k, rate, len) ==
    {i \in 0 .. len - 1 :
        /\ Round(k * rate, OutRate) <= i
        /\ i < Round((k + 1) * rate, OutRate)}
SumOver(buffer, W) ==
    LET RECURSIVE S(_)
        S(X) == IF X = {} THEN 0
                ELSE LET i == CHOOSE i \in X : TRUE
                     IN buffer[i + 1] + S(X \ {i})
    IN S(W)

\* C21: downsampleBuffer returns round(length * 16000 / rate) samples,
\* every output sample's window holds at least one source sample, and the
\* output sample is the mean of the source samples of its window
C21_LinearAverage ==
    dsp.done =>
        LET len == Len(dsp.input)
        IN /\ Len(dsp.output) = Round(len * OutRate, dsp.rate)
           /\ \A k \in 0 .. Len(dsp.output) - 1 :
                 LET W == Window(k, dsp.rate, len)
                     y == dsp.output[k + 1]
                 IN /\ W # {}
                    /\ y.den > 0
                    /\ y.num * Cardinality(W) = SumOver(dsp.input, W) * y.den

C23_FailureIsolation ==
    [][\A s \in SockIds :
          /\ socks[s].inq # <<>>
          /\ Head(socks[s].inq).type = "audio"
          /\ socks'[s].inq = Tail(socks[s].inq)
          => \A t \in SockIds :
                /\ socks'[t].srv = socks[t].srv
                /\ socks'[t].rs = socks[t].rs
                /\ \A i \in DOMAIN socks'[t].out :
                      socks'[t].out[i].type # "close"]_vars

\* C24: every audio unit that reaches the server is eventually done with:
\* it has left the handler's input, no call for it is in flight and its
\* messages, if it has any, have been broadcast
C24_BoundedCalls ==
    \A u \in Users :
        (Audio(socks[u].inq) # <<>>)
            ~> /\ Audio(socks[u].inq) = <<>>
               /\ socks[u].call = "none"
               /\ socks[u].job = <<>>

\* C25: once the cleanup of a participant's room view has run, the view has
\* no connecting or open transport, and no step creates one for it
C25_NoTransportAfterTeardown ==
    /\ [](\A u \in Users : view[u] = "cleaned" =>
             \A s \in SockIds : socks[s].owner = u => ~Live(s))
    /\ [][\A u \in Users : view[u] = "cleaned" /\ view'[u] = "cleaned" =>
             ~(/\ Len(socks') > Len(socks)
               /\ socks'[Len(socks')].owner = u)]_vars

\* the ids of the messages of transcript ms
Ids(ms) == {ms[i].id : i \in DOMAIN ms}

\* C26: the step in which fetchRoomData resolves removes no message the
\* transcript held: every message shown before it is shown after it
C26_HistoryKeepsLive ==
    [][\A u \in Users :
          fetch[u] /\ ~fetch'[u] =>
             Ids(messages[u]) \subseteq Ids(messages'[u])]_vars

\* the language_change frames of transport s the server has not handled
LangInFlight(s) ==
    {socks[s].inq[i].lang :
        i \in {j \in DOMAIN socks[s].inq :
                  socks[s].inq[j].type = "language_change"}}

\* C27: whenever a participant's transport is open and joined, the target
\* language the server holds for the participant is the selected one, or
\* a language_change carrying the selected one is on its way on that
\* transport
C27_LanguageInSync ==
    \A u \in Users :
        (/\ wsRef[u] # 0
         /\ socks[wsRef[u]].rs = "OPEN"
         /\ socks[wsRef[u]].joined)
            => \/ srvLang[u] = translateTo[u]
               \/ translateTo[u] \in LangInFlight(wsRef[u])

\* the capture pipelines of participant u that push frames into the buffer
Pipelines(u) ==
    (IF mic[u].cur = "live" THEN 1 ELSE 0) + (IF mic[u].leaked THEN 1 ELSE 0)

\* C28: at most one capture pipeline feeds a participant's frame buffer,
\* none does while the participant is not recording, and no frame is
\* appended to the buffer while the participant is not recording
C28_SinglePipeline ==
    /\ [](\A u \in Users :
            /\ Pipelines(u) <= 1
            /\ ~isRecording[u] => Pipelines(u) = 0)
    /\ [][\A u \in Users :
             ~isRecording[u] => Len(chunks'[u]) <= Len(chunks[u])]_vars

\* C29: among the frames a transport carries to the server, no two
\* speaking_status frames in a row have the same value, and an audio unit
\* follows speaking false directly
C29_TurnOrder ==
    \A s \in SockIds : \A i \in DOMAIN socks[s].inq :
        i > 1 =>
           LET a == socks[s].inq[i - 1]
               b == socks[s].inq[i]
           IN /\ ~(/\ a.type = "speaking_status"
                   /\ b.type = "speaking_status"
                   /\ a.flag = b.flag)
              /\ b.type = "audio" => a.type = "speaking_status" /\ ~a.flag

\* C30: a step in which onmessage handles a frame it cannot use changes
\* neither the roster, the transcript, the creator flag nor the connection
\* state of the receiving view, and leaves the transport as it was
C30_MalformedIgnored ==
    [][\A s \in SockIds :
          (/\ socks[s].rs = "OPEN"
           /\ socks[s].out # <<>>
           /\ Head(socks[s].out) \in Malformed
           /\ socks'[s].out = Tail(socks[s].out)) =>
             LET u == socks[s].owner
             IN /\ participants'[u] = participants[u]
                /\ messages'[u] = messages[u]
                /\ isCreator'[u] = isCreator[u]
                /\ isConnected'[u] = isConnected[u]
                /\ view'[u] = view[u]
                /\ socks'[s].rs = "OPEN"]_vars
====
